---------------------------- MODULE Spec2Model ----------------------------
(* Temple & Tourist Spot Crowd Density Predictor (src/script.js).          *)
(*                                                                         *)
(* The module state is the script's module-level state (DATASET,           *)
(* SAMPLES_SORTED, QUARTILES, PER_LOCATION_STATS), the position of the     *)
(* asynchronous boot sequence, a log of the latest calls, and the display  *)
(* state of the controls populateUI adds to the page.                      *)
(*                                                                         *)
(* Specifications over the shared state:                                   *)
(*   Spec          the page's boot sequence (DOMContentLoaded handler,     *)
(*                 initEverything between its awaits, the fallback).       *)
(*   SpecStats     computeGlobalQuartilesAndLabels / computePerLocation-   *)
(*                 Stats applied to corpora drawn from a bounded family.   *)
(*   SpecClassify  mapToDensityLabel applied under quartile sets drawn     *)
(*                 from a bounded family (and under QUARTILES = null).     *)
(*   SpecFootfall  computeFootfallSample applied to contexts drawn from a  *)
(*                 bounded family.                                         *)
(*   SpecPage      the boot sequence interleaved with the click handlers   *)
(*                 of the page.                                            *)
EXTENDS Integers, Sequences, FiniteSets, TLC

VARIABLES DATASET, SAMPLES_SORTED, QUARTILES, PER_LOCATION_STATS,
          pc, generated, finalized, wired, calls,
          controls, previewContainer, analyticsContainer

vars == <<DATASET, SAMPLES_SORTED, QUARTILES, PER_LOCATION_STATS,
          pc, generated, finalized, wired, calls,
          controls, previewContainer, analyticsContainer>>

\* controls: the Download CSV, Preview and Location Analytics buttons are in
\* the page with their onclick handlers; previewContainer, analyticsContainer:
\* the style.display of the two containers (undefined until created).
page == <<controls, previewContainer, analyticsContainer>>

-----------------------------------------------------------------------------
(* Bounds of the model.                                                    *)

\* initEverything's safeN (50000 in the source), scaled down.
safeN == 5
\* initEverything's chunk (5000 in the source), scaled down.
chunk == 2
\* The fallback's generateDataset(5000), scaled down.
fallbackN == 2
\* Math.random() yields k / RandDen for k in 0 .. RandDen-1.
RandDen == 16
\* SpecStats: hours 6 .. 6+MaxStatHours-1 may hold rows of the probed location.
MaxStatHours == 6
\* SpecClassify: corpora of up to MaxClassifyRows rows.
MaxClassifyRows == 4

-----------------------------------------------------------------------------
(* CONFIG & DATA                                                           *)

LOCATIONS == << "Chamundi_Temple", "Nanjangud_Temple", "Srirangapatna_Temple",
                "Mysore_Palace", "Brindavan_Gardens", "Mysore_Zoo", "KRS_Dam" >>

KnownLocations == { LOCATIONS[i] : i \in 1..Len(LOCATIONS) }

\* locPopularity, in tenths.
locPopularity10 ==
    [ Chamundi_Temple |-> 12, Nanjangud_Temple |-> 9, Srirangapatna_Temple |-> 6,
      Mysore_Palace |-> 15, Brindavan_Gardens |-> 11, Mysore_Zoo |-> 10,
      KRS_Dam |-> 7 ]

baseScale ==
    [ Chamundi_Temple |-> 500, Nanjangud_Temple |-> 300, Srirangapatna_Temple |-> 150,
      Mysore_Palace |-> 800, Brindavan_Gardens |-> 450, Mysore_Zoo |-> 350,
      KRS_Dam |-> 200 ]

\* weatherMultiplier, in twentieths (1.0, 0.95, 0.6, 0.8, 0.9).
weatherMultiplier20 ==
    [ Clear |-> 20, Cloudy |-> 19, Rain |-> 12, Hot |-> 16, Humid |-> 18 ]

\* Object.keys(weatherMultiplier): insertion order of the string keys.
weatherTypes == << "Clear", "Cloudy", "Rain", "Hot", "Humid" >>

base_temp_by_month == << 22, 23, 25, 27, 28, 28, 27, 27, 26, 25, 24, 23 >>

\* The value of `let QUARTILES = null`.
null == [ null |-> TRUE ]

\* The value of `let previewContainer;` and `let analyticsContainer;`.
undefined == "undefined"

\* PER_LOCATION_STATS = {} : the object with no keys.
EmptyObject == [ k \in {} |-> 0 ]

-----------------------------------------------------------------------------
(* TIME & TEMP HELPERS, in tenths / twentieths                             *)

timeFactor10(hour) ==
    IF hour >= 6 /\ hour < 9 THEN 9
    ELSE IF hour >= 9 /\ hour < 12 THEN 10
    ELSE IF hour >= 12 /\ hour < 15 THEN 8
    ELSE IF hour >= 15 /\ hour < 18 THEN 11
    ELSE IF hour >= 18 /\ hour < 21 THEN 14
    ELSE 6

\* temp is the rational tempNum / tempDen (tempDen > 0); the result is in
\* twentieths.
tempFactor20(tempNum, tempDen) ==
    IF tempNum > 32 * tempDen THEN 16
    ELSE IF tempNum < 20 * tempDen THEN 17
    ELSE 20

Max(a, b) == IF a >= b THEN a ELSE b

Min(a, b) == IF a <= b THEN a ELSE b

\* Math.round(num / den) for den > 0: the nearest integer, halves upward.
\* (The quotient of two integers below 2^53 is a half-integer only when it is
\* exactly one, so rounding the quotient to a double first changes nothing.)
MathRound(num, den) == (2 * num + den) \div (2 * den)

-----------------------------------------------------------------------------
(* Number arithmetic: IEEE-754 binary64, round to nearest, ties to even    *)
(*                                                                         *)
(* A Number is [sign, m, e] with value sign * m * 2^e, where m is a natural *)
(* number of at most 53 significant bits held as a little-endian sequence   *)
(* of limbs (<<>> is zero).  Every operation computes its exact result and  *)
(* rounds it to 53 significant bits.  The exponent is unbounded: the        *)
(* script's values stay far from overflow and from the subnormal range.     *)

\* The significand of a binary64 Number, in bits.
SignificandBits == 53

LimbBits == 12

Limb == 4096

RECURSIVE Pow2(_)
Pow2(k) == IF k = 0 THEN 1 ELSE 2 * Pow2(k - 1)

RECURSIVE Trim(_)
Trim(a) ==
    IF a = <<>> THEN a
    ELSE IF a[Len(a)] # 0 THEN a
    ELSE Trim(SubSeq(a, 1, Len(a) - 1))

RECURSIVE BigOfNat(_)
BigOfNat(n) == IF n = 0 THEN <<>> ELSE <<n % Limb>> \o BigOfNat(n \div Limb)

RECURSIVE NatOfBig(_)
NatOfBig(a) == IF a = <<>> THEN 0 ELSE Head(a) + Limb * NatOfBig(Tail(a))

LimbAt(a, i) == IF i <= Len(a) THEN a[i] ELSE 0

RECURSIVE AddFrom(_, _, _, _)
AddFrom(a, b, i, carry) ==
    IF i > Len(a) /\ i > Len(b) THEN BigOfNat(carry)
    ELSE LET s == LimbAt(a, i) + LimbAt(b, i) + carry
         IN  <<s % Limb>> \o AddFrom(a, b, i + 1, s \div Limb)

BigAdd(a, b) == AddFrom(a, b, 1, 0)

RECURSIVE SubFrom(_, _, _, _)
SubFrom(a, b, i, borrow) ==
    IF i > Len(a) THEN <<>>
    ELSE LET s == LimbAt(a, i) - LimbAt(b, i) - borrow
         IN  <<s % Limb>> \o SubFrom(a, b, i + 1, IF s < 0 THEN 1 ELSE 0)

\* a - b for a >= b
BigSub(a, b) == Trim(SubFrom(a, b, 1, 0))

\* -1, 0 or 1 as a < b, a = b or a > b
RECURSIVE BigCmp(_, _)
BigCmp(a, b) ==
    IF Len(a) # Len(b) THEN (IF Len(a) < Len(b) THEN -1 ELSE 1)
    ELSE IF a = <<>> THEN 0
    ELSE IF a[Len(a)] # b[Len(b)] THEN (IF a[Len(a)] < b[Len(b)] THEN -1 ELSE 1)
    ELSE BigCmp(SubSeq(a, 1, Len(a) - 1), SubSeq(b, 1, Len(b) - 1))

RECURSIVE MulSmallFrom(_, _, _, _)
MulSmallFrom(a, k, i, carry) ==
    IF i > Len(a) THEN BigOfNat(carry)
    ELSE LET p == a[i] * k + carry
         IN  <<p % Limb>> \o MulSmallFrom(a, k, i + 1, p \div Limb)

\* a * k for 0 <= k <= Limb
BigMulSmall(a, k) == IF k = 0 THEN <<>> ELSE MulSmallFrom(a, k, 1, 0)

\* a * Limb^n
ShiftLimbs(a, n) == IF a = <<>> THEN <<>> ELSE [ i \in 1 .. n |-> 0 ] \o a

RECURSIVE BigMul(_, _)
BigMul(a, b) ==
    IF b = <<>> THEN <<>>
    ELSE BigAdd(BigMulSmall(a, Head(b)), ShiftLimbs(BigMul(a, Tail(b)), 1))

\* [q, r] with a = q * d + r and 0 <= r < d, for 0 < d <= Limb
RECURSIVE BigDivSmall(_, _)
BigDivSmall(a, d) ==
    IF a = <<>> THEN [ q |-> <<>>, r |-> 0 ]
    ELSE LET h == BigDivSmall(Tail(a), d)
             t == h.r * Limb + Head(a)
         IN  [ q |-> Trim(<<t \div d>> \o h.q), r |-> t % d ]

\* a * 2^s
ShiftLeft(a, s) == ShiftLimbs(BigMulSmall(a, Pow2(s % LimbBits)), s \div LimbBits)

\* floor(a / 2^s)
ShiftRight(a, s) ==
    IF s \div LimbBits >= Len(a) THEN <<>>
    ELSE BigDivSmall(SubSeq(a, s \div LimbBits + 1, Len(a)), Pow2(s % LimbBits)).q

RECURSIVE SmallBits(_)
SmallBits(n) == IF n = 0 THEN 0 ELSE 1 + SmallBits(n \div 2)

BitLength(a) ==
    IF a = <<>> THEN 0 ELSE LimbBits * (Len(a) - 1) + SmallBits(a[Len(a)])

\* Where the part of a below bit s lies with respect to one half of 2^s (s > 0):
\* -1 below, 0 on it, 1 above.
BelowBit(a, s) ==
    BigCmp(BigSub(a, ShiftLeft(ShiftRight(a, s), s)), ShiftLeft(<<1>>, s - 1))

PlusZero == [ sign |-> 1, m |-> <<>>, e |-> 0 ]

\* The Number nearest to sign * (m + f) * 2^e, where 0 <= f < 1 and inexact
\* tells whether f > 0; ties go to the even significand.
RoundNumber(sign, m, e, inexact) ==
    IF BitLength(m) <= SignificandBits
    THEN [ sign |-> sign, m |-> m, e |-> e ]
    ELSE LET s    == BitLength(m) - SignificandBits
             q    == ShiftRight(m, s)
             half == BelowBit(m, s)
             up   == \/ half > 0
                     \/ half = 0 /\ (inexact \/ q[1] % 2 = 1)
         IN  [ sign |-> sign, m |-> IF up THEN BigAdd(q, <<1>>) ELSE q, e |-> e + s ]

\* The Number an integer below 2^31 converts to.
NumberOfInt(n) ==
    [ sign |-> IF n < 0 THEN -1 ELSE 1, m |-> BigOfNat(IF n < 0 THEN -n ELSE n), e |-> 0 ]

\* The scale at which a decimal literal is divided out before rounding.
LiteralShift == 64

\* The Number a decimal literal num / den denotes (num >= 0, 0 < den <= Limb).
Literal(num, den) ==
    LET d == BigDivSmall(ShiftLeft(BigOfNat(num), LiteralShift), den)
    IN  RoundNumber(1, d.q, -LiteralShift, d.r # 0)

\* x * y
NumMul(x, y) ==
    IF x.m = <<>> \/ y.m = <<>> THEN [ PlusZero EXCEPT !.sign = x.sign * y.sign ]
    ELSE RoundNumber(x.sign * y.sign, BigMul(x.m, y.m), x.e + y.e, FALSE)

\* x + y
NumAdd(x, y) ==
    IF x.m = <<>> THEN (IF y.m = <<>> /\ x.sign # y.sign THEN PlusZero ELSE y)
    ELSE IF y.m = <<>> THEN x
    ELSE LET e  == Min(x.e, y.e)
             xm == ShiftLeft(x.m, x.e - e)
             ym == ShiftLeft(y.m, y.e - e)
             c  == BigCmp(xm, ym)
         IN  IF x.sign = y.sign THEN RoundNumber(x.sign, BigAdd(xm, ym), e, FALSE)
             ELSE IF c = 0 THEN PlusZero
             ELSE IF c > 0 THEN RoundNumber(x.sign, BigSub(xm, ym), e, FALSE)
             ELSE RoundNumber(y.sign, BigSub(ym, xm), e, FALSE)

\* Math.round(x) as an integer: the nearest integer, halves toward +Infinity.
MathRoundNumber(x) ==
    IF x.m = <<>> THEN 0
    ELSE IF x.e >= 0 THEN x.sign * NatOfBig(ShiftLeft(x.m, x.e))
    ELSE LET whole == NatOfBig(ShiftRight(x.m, -x.e))
             half  == BelowBit(x.m, -x.e)
         IN  IF x.sign > 0 THEN (IF half >= 0 THEN whole + 1 ELSE whole)
             ELSE (IF half > 0 THEN -(whole + 1) ELSE -whole)

-----------------------------------------------------------------------------
(* FOOTFALL HEURISTIC (single)                                             *)

\* gaussianRandom(mean, std) = z * std + mean, for the standard normal variate
\* z the Box-Muller step produced (here a whole number of deviations).
gaussianRandom(mean, std, z) == NumAdd(NumMul(NumberOfInt(z), std), mean)

\* base * pop * tf * festivalFactor * holidayFactor * wmul * tfac + noise,
\* multiplied and added left to right.
FootfallNumber(ctx) ==
    LET pop   == IF ctx.location \in DOMAIN locPopularity10
                 THEN Literal(locPopularity10[ctx.location], 10) ELSE Literal(10, 10)
        tf    == Literal(timeFactor10(ctx.hour), 10)
        festivalFactor == IF ctx.is_festival = 1 THEN Literal(20, 10) ELSE Literal(10, 10)
        holidayFactor  == IF ctx.is_holiday = 1 THEN Literal(14, 10) ELSE Literal(10, 10)
        wmul  == IF ctx.weather \in DOMAIN weatherMultiplier20
                 THEN Literal(weatherMultiplier20[ctx.weather], 20) ELSE Literal(20, 20)
        tfac  == Literal(tempFactor20(ctx.tempNum, ctx.tempDen), 20)
        base  == IF ctx.location \in DOMAIN baseScale
                 THEN NumberOfInt(baseScale[ctx.location]) ELSE NumberOfInt(200)
        noiseStd == NumMul(base, Literal(15, 100))
        noise == gaussianRandom(PlusZero, noiseStd, ctx.z)
    IN  NumAdd(NumMul(NumMul(NumMul(NumMul(NumMul(NumMul(base, pop), tf),
                   festivalFactor), holidayFactor), wmul), tfac), noise)

ComputeFootfallNoClamp(ctx) == MathRoundNumber(FootfallNumber(ctx))

\* computeFootfallSample: Math.max(0, Math.round(... + noise)).
computeFootfallSample(ctx) == Max(0, MathRoundNumber(FootfallNumber(ctx)))

-----------------------------------------------------------------------------
(* Array helpers                                                           *)

CompareReversed(cmp, a, b) ==
    IF cmp = "numeric" THEN b - a ELSE a.avg - b.avg

\* The comparators handed to Array.prototype.sort:
\*   "numeric"  (a,b) => a-b          "avgDesc"  (a,b) => b.avg - a.avg
Compare(cmp, a, b) ==
    IF cmp = "numeric" THEN a - b ELSE b.avg - a.avg

\* Array.prototype.sort(cmp): a stable sort; x is placed after every element
\* that cmp does not order after it.
RECURSIVE InsertSorted(_, _, _)
InsertSorted(x, sorted, cmp) ==
    IF sorted = <<>> THEN <<x>>
    ELSE IF Compare(cmp, x, sorted[Len(sorted)]) < 0
         THEN Append(InsertSorted(x, SubSeq(sorted, 1, Len(sorted) - 1), cmp),
                     sorted[Len(sorted)])
         ELSE Append(sorted, x)

RECURSIVE ArraySort(_, _)
ArraySort(arr, cmp) ==
    IF arr = <<>> THEN <<>>
    ELSE InsertSorted(arr[Len(arr)],
                      ArraySort(SubSeq(arr, 1, Len(arr) - 1), cmp), cmp)

\* DATASET.filter(d => d.location === loc)
RECURSIVE RowsAt(_, _)
RowsAt(rows, loc) ==
    IF rows = <<>> THEN <<>>
    ELSE IF Head(rows).location = loc THEN <<Head(rows)>> \o RowsAt(Tail(rows), loc)
         ELSE RowsAt(Tail(rows), loc)

\* Array.prototype.slice(0, k)
SliceFirst(arr, k) == SubSeq(arr, 1, Min(k, Len(arr)))

\* d => d.footfall mapped over an array of rows
FootfallsOf(rows) == [ i \in 1..Len(rows) |-> rows[i].footfall ]

\* Math.floor(n * 0.25), Math.floor(n * 0.50), Math.floor(n * 0.75), with the
\* fraction in hundredths (n * 0.25 etc. are exact in binary floating point).
QuartileIndexCeil(n, pct) == Min(n - 1, (n * pct + 99) \div 100)

QuartileIndex(n, pct) == (n * pct) \div 100

\* {q1,q2,q3} read from an ascending array with at least one element; arrays
\* are zero-indexed in the source and one-indexed here.
QuartilesOfSorted(sorted) ==
    [ q1 |-> sorted[QuartileIndex(Len(sorted), 25) + 1],
      q2 |-> sorted[QuartileIndex(Len(sorted), 50) + 1],
      q3 |-> sorted[QuartileIndex(Len(sorted), 75) + 1] ]

ZeroQuartiles == [ q1 |-> 0, q2 |-> 0, q3 |-> 0 ]

-----------------------------------------------------------------------------
(* QUARTILES & LABELING                                                    *)

\* ({Low:0,Medium:1,High:2,Very_High:3})[label]
DensityInt == [ Low |-> 0, Medium |-> 1, High |-> 2, Very_High |-> 3 ]

RowLabelStrict(footfall, q) ==
    IF footfall < q.q1 THEN "Low"
    ELSE IF footfall < q.q2 THEN "Medium"
    ELSE IF footfall < q.q3 THEN "High"
    ELSE "Very_High"

\* The if/else chain of the row-labeling loop.
RowLabel(footfall, q) ==
    IF footfall <= q.q1 THEN "Low"
    ELSE IF footfall <= q.q2 THEN "Medium"
    ELSE IF footfall <= q.q3 THEN "High"
    ELSE "Very_High"

\* One iteration of the loop: r.density_label and r.density_int are assigned.
LabelRow(r, q) ==
    [ hour |-> r.hour, location |-> r.location, footfall |-> r.footfall,
      density_label |-> RowLabel(r.footfall, q),
      density_int |-> DensityInt[RowLabel(r.footfall, q)] ]

\* computeGlobalQuartilesAndLabels() on corpus ds: the new SAMPLES_SORTED,
\* QUARTILES and DATASET.  With no rows it returns before the labeling loop.
GlobalQuartilesAndLabels(ds) ==
    LET sorted == ArraySort(FootfallsOf(ds), "numeric")
    IN  IF Len(sorted) = 0
        THEN [ sorted |-> sorted, q |-> ZeroQuartiles, ds |-> ds ]
        ELSE LET q == QuartilesOfSorted(sorted)
             IN  [ sorted |-> sorted,
                   q      |-> q,
                   ds     |-> [ i \in 1..Len(ds) |-> LabelRow(ds[i], q) ] ]

-----------------------------------------------------------------------------
(* PER-LOCATION STATS                                                      *)

\* Object.keys(hourBuckets): the keys are integer-like, so they are listed in
\* ascending numeric order whatever the order of insertion.
RECURSIVE IntegerKeysAscending(_)
IntegerKeysAscending(keys) ==
    IF keys = {} THEN <<>>
    ELSE LET m == CHOOSE k \in keys : \A j \in keys : k <= j
         IN  <<m>> \o IntegerKeysAscending(keys \ {m})

RECURSIVE SumSeq(_)
SumSeq(s) == IF s = <<>> THEN 0 ELSE Head(s) + SumSeq(Tail(s))

\* The rows the loop adds into hourBuckets[h] and counts[h].
RECURSIVE HourRows(_, _, _)
HourRows(rows, loc, h) ==
    IF rows = <<>> THEN <<>>
    ELSE IF Head(rows).location = loc /\ Head(rows).hour = h
         THEN <<Head(rows)>> \o HourRows(Tail(rows), loc, h)
         ELSE HourRows(Tail(rows), loc, h)

HourKeys(ds, loc) == { ds[i].hour : i \in { j \in 1..Len(ds) : ds[j].location = loc } }

\* The length of the top-hours list: slice(0,5).
TopK == 5

RECURSIVE Reversed(_)
Reversed(arr) == IF arr = <<>> THEN <<>> ELSE Append(Reversed(Tail(arr)), Head(arr))

TopHoursAscending(ds, loc) ==
    LET keys == IntegerKeysAscending(HourKeys(ds, loc))
        avgs == [ i \in 1..Len(keys) |->
                    [ hour |-> keys[i],
                      avg  |-> MathRound(SumSeq(FootfallsOf(HourRows(ds, loc, keys[i]))),
                                         Len(HourRows(ds, loc, keys[i]))) ] ]
    IN  SliceFirst(Reversed(ArraySort(avgs, "avgDesc")), TopK)

\* avgPerHour: map over Object.keys, sort by descending average, slice(0,5).
TopHours(ds, loc) ==
    LET keys == IntegerKeysAscending(HourKeys(ds, loc))
        avgs == [ i \in 1..Len(keys) |->
                    [ hour |-> keys[i],
                      avg  |-> MathRound(SumSeq(FootfallsOf(HourRows(ds, loc, keys[i]))),
                                         Len(HourRows(ds, loc, keys[i]))) ] ]
    IN  SliceFirst(ArraySort(avgs, "avgDesc"), TopK)

\* The entry computePerLocationStats stores for location loc.
LocationStats(ds, loc) ==
    LET items == ArraySort(FootfallsOf(RowsAt(ds, loc)), "numeric")
    IN  IF Len(items) = 0
        THEN [ q1 |-> 0, q2 |-> 0, q3 |-> 0, topHours |-> <<>> ]
        ELSE [ q1 |-> items[QuartileIndex(Len(items), 25) + 1],
               q2 |-> items[QuartileIndex(Len(items), 50) + 1],
               q3 |-> items[QuartileIndex(Len(items), 75) + 1],
               topHours |-> TopHours(ds, loc) ]

PerLocationStatsSkipEmpty(ds) ==
    [ loc \in { l \in KnownLocations : RowsAt(ds, l) # <<>> } |-> LocationStats(ds, loc) ]

\* computePerLocationStats(): PER_LOCATION_STATS = {} then one entry per
\* location of LOCATIONS.
PerLocationStats(ds) == [ loc \in KnownLocations |-> LocationStats(ds, loc) ]

-----------------------------------------------------------------------------
(* MAP FOOTFALL -> DENSITY (using QUARTILES)                               *)

MapToDensityLabelGuess(footfall, q) ==
    IF footfall <= (IF q = null THEN 0 ELSE q.q1) THEN "Low"
    ELSE IF footfall <= (IF q = null THEN 0 ELSE q.q2) THEN "Medium"
    ELSE IF footfall <= (IF q = null THEN 0 ELSE q.q3) THEN "High"
    ELSE "Very_High"

MapToDensityLabelStrict(footfall, q) ==
    IF q = null THEN "Unknown"
    ELSE IF footfall < q.q1 THEN "Low"
    ELSE IF footfall <= q.q2 THEN "Medium"
    ELSE IF footfall <= q.q3 THEN "High"
    ELSE "Very_High"

MapToDensityLabelSwapped(footfall, q) ==
    IF q = null THEN "Unknown"
    ELSE IF footfall <= q.q1 THEN "Low"
    ELSE IF footfall <= q.q2 THEN "High"
    ELSE IF footfall <= q.q3 THEN "Medium"
    ELSE "Very_High"

\* mapToDensityLabel(footfall) read with the global QUARTILES equal to q.
mapToDensityLabel(footfall, q) ==
    IF q = null THEN "Unknown"
    ELSE IF footfall <= q.q1 THEN "Low"
    ELSE IF footfall <= q.q2 THEN "Medium"
    ELSE IF footfall <= q.q3 THEN "High"
    ELSE "Very_High"

-----------------------------------------------------------------------------
(* DATASET GENERATOR                                                       *)
(*                                                                         *)
(* A row keeps the columns the statistics read (hour, location, footfall)  *)
(* and, once labeled, density_label and density_int; the other columns     *)
(* (datetime, date, day_of_week, month, weather, temperature, is_festival, *)
(* is_holiday) are written once and never read back by the script's        *)
(* computations.                                                           *)

\* The draws the model enumerates for one generated row.  Each r* field is
\* the numerator k of a Math.random() value k / RandDen, 0 <= k < RandDen
\* (here the two ends of that range); month and dow are what the random date yields,
\* inFestivalDates whether FESTIVAL_DATES has it, z the standard normal
\* variate gaussianRandom builds from its two uniforms.
RowDraws ==
    [ rHour : {0}, rLoc : {0},
      rBias : {0}, rWeather : {RandDen - 1},
      month : {1}, rTemp : {0},
      inFestivalDates : {FALSE}, rFestival : {RandDen - 1},
      dow : {1}, z : {-3, 0} ]
    \cup
    [ rHour : {RandDen - 1}, rLoc : {RandDen - 1},
      rBias : {0}, rWeather : {RandDen - 1},
      month : {1}, rTemp : {0},
      inFestivalDates : {FALSE}, rFestival : {RandDen - 1},
      dow : {1}, z : {-3, 0} ]

\* Math.floor(Math.random()*(21-6+1))+6
DrawHour(r) == (r * (21 - 6 + 1)) \div RandDen + 6

\* LOCATIONS[Math.floor(Math.random()*LOCATIONS.length)]
DrawLocation(r) == LOCATIONS[(r * Len(LOCATIONS)) \div RandDen + 1]

\* generateDataset: weatherTypes[Math.random() < 0.6 ? Math.floor(Math.random()*1)
\*   : Math.floor(Math.random()*weatherTypes.length)] || "Clear"
DrawWeatherDataset(rBias, rWeather) ==
    IF rBias * 10 < 6 * RandDen
    THEN weatherTypes[(rWeather * 1) \div RandDen + 1]
    ELSE weatherTypes[(rWeather * Len(weatherTypes)) \div RandDen + 1]

\* generateChunkAndAppend: (Math.random() < 0.65) ? "Clear" : weatherTypes[...]
DrawWeatherChunk(rBias, rWeather) ==
    IF rBias * 100 < 65 * RandDen
    THEN "Clear"
    ELSE weatherTypes[(rWeather * Len(weatherTypes)) \div RandDen + 1]

\* The context handed to computeFootfallSample for the draws d; temp is
\* base_temp_by_month[month-1] + (Math.random()*4-2), over RandDen.
RowContext(d, weather) ==
    [ location    |-> DrawLocation(d.rLoc),
      hour        |-> DrawHour(d.rHour),
      weather     |-> weather,
      tempNum     |-> base_temp_by_month[d.month] * RandDen + 4 * d.rTemp - 2 * RandDen,
      tempDen     |-> RandDen,
      is_festival |-> IF d.inFestivalDates THEN 1
                      ELSE IF d.rFestival * 100 < 2 * RandDen THEN 1 ELSE 0,
      is_holiday  |-> IF d.dow = 0 \/ d.dow = 6 THEN 1 ELSE 0,
      z           |-> d.z ]

\* The object pushed onto DATASET.
PushedRow(ctx) ==
    [ hour |-> ctx.hour, location |-> ctx.location,
      footfall |-> computeFootfallSample(ctx) ]

\* One iteration of generateDataset's loop.
DatasetRow(d) == PushedRow(RowContext(d, DrawWeatherDataset(d.rBias, d.rWeather)))

\* One iteration of generateChunkAndAppend's loop.
ChunkRow(d) == PushedRow(RowContext(d, DrawWeatherChunk(d.rBias, d.rWeather)))

\* The contexts predictFromUI reads from the form (after randomizeInputs, or
\* as the user set them).
FormContexts ==
    [ location : {"Mysore_Palace", "KRS_Dam"}, hour : {18}, weather : {"Clear"},
      tempNum : {26}, tempDen : {1}, is_festival : {0}, is_holiday : {0},
      z : {0} ]

\* computeFootfallSample on each of those contexts.
FormFootfall == [ ctx \in FormContexts |-> computeFootfallSample(ctx) ]

\* The rows one iteration of generateDataset's loop can push.
DatasetRows == { DatasetRow(d) : d \in RowDraws }

\* The rows one iteration of generateChunkAndAppend's loop can push.
ChunkRows == { ChunkRow(d) : d \in RowDraws }

-----------------------------------------------------------------------------
(* State changes shared by the callers                                     *)

\* The log keeps the previous and the latest mapToDensityLabel call.
Logged(entry) == IF Len(calls) < 2 THEN Append(calls, entry) ELSE <<calls[2], entry>>

\* predictFromUI(): computeFootfallSample then mapToDensityLabel; showResult
\* only writes to the page.
PredictFromUI(ctx, q) ==
    calls' = Logged([ footfall   |-> FormFootfall[ctx],
                      label      |-> mapToDensityLabel(FormFootfall[ctx], q),
                      quartiles  |-> q ])

TypeOK ==
    /\ pc \in {"load", "loop", "ready", "rejected", "fallback", "api", "returned"}
    /\ generated \in Nat
    /\ finalized \in BOOLEAN
    /\ wired \in BOOLEAN
    /\ Len(calls) <= 2
    /\ controls \in BOOLEAN
    /\ previewContainer \in {undefined, "none", "block"}
    /\ analyticsContainer \in {undefined, "none", "block"}

-----------------------------------------------------------------------------
(* BOOT: the DOMContentLoaded handler and initEverything                   *)

Init ==
    /\ DATASET = <<>>
    /\ SAMPLES_SORTED = <<>>
    /\ QUARTILES = null
    /\ PER_LOCATION_STATS = EmptyObject
    /\ pc = "load"
    /\ generated = 0
    /\ finalized = FALSE
    /\ wired = FALSE
    /\ calls = <<>>
    /\ controls = FALSE
    /\ previewContainer = undefined
    /\ analyticsContainer = undefined

\* populateUI() returns: the three buttons are in the page with their
\* handlers, both containers are created hidden.
PopulateUI ==
    /\ controls' = TRUE
    /\ previewContainer' = "none"
    /\ analyticsContainer' = "none"

\* populateUI() throws, or returns and the first write to sampleCountEl
\* throws: before the buttons exist (hourSelect or dateInput is null, or the
\* page has neither card), at the creation of the preview container (no
\* .large-card), at the creation of the analytics container (no .side-card),
\* or at sampleCountEl (null).
PopulateUIThrows ==
    \/ /\ controls' = FALSE
       /\ previewContainer' = undefined
       /\ analyticsContainer' = undefined
    \/ /\ controls' = TRUE
       /\ previewContainer' = undefined
       /\ analyticsContainer' = undefined
    \/ /\ controls' = TRUE
       /\ previewContainer' = "none"
       /\ analyticsContainer' = undefined
    \/ PopulateUI

\* DOMContentLoaded: initEverything() runs to its first await: populateUI,
\* DATASET = [], and the first pass of the while loop; R is the set of rows
\* an iteration of generateChunkAndAppend may push.
FirstBatch(R) ==
    /\ pc = "load"
    /\ PopulateUI
    /\ 0 < safeN
    /\ \E rows \in [ 1 .. Min(chunk, safeN - 0) -> R ] :
          DATASET' = rows
    /\ generated' = 0 + Min(chunk, safeN - 0)
    /\ pc' = "loop"
    /\ UNCHANGED <<SAMPLES_SORTED, QUARTILES, PER_LOCATION_STATS, finalized, wired, calls>>

BootFirstBatch == FirstBatch(ChunkRows)

\* populateUI or the first write to sampleCountEl throws before DATASET is
\* touched: the promise is rejected.
BootThrowsEarly ==
    /\ pc = "load"
    /\ PopulateUIThrows
    /\ pc' = "rejected"
    /\ UNCHANGED <<DATASET, SAMPLES_SORTED, QUARTILES, PER_LOCATION_STATS,
                   generated, finalized, wired, calls>>

NextBatchWholeChunk(R) ==
    /\ pc = "loop"
    /\ generated < safeN
    /\ \E rows \in [ 1 .. chunk -> R ] :
          DATASET' = DATASET \o rows
    /\ generated' = generated + chunk
    /\ UNCHANGED <<SAMPLES_SORTED, QUARTILES, PER_LOCATION_STATS, pc, finalized, wired, calls>>
    /\ UNCHANGED page

\* The 20 ms timer fires with generated < safeN: the next pass of the loop.
NextBatch(R) ==
    /\ pc = "loop"
    /\ generated < safeN
    /\ \E rows \in [ 1 .. Min(chunk, safeN - generated) -> R ] :
          DATASET' = DATASET \o rows
    /\ generated' = generated + Min(chunk, safeN - generated)
    /\ UNCHANGED <<SAMPLES_SORTED, QUARTILES, PER_LOCATION_STATS, pc, finalized, wired, calls>>
    /\ UNCHANGED page

BootNextBatch == NextBatch(ChunkRows)

\* A pass of the loop throws while its batch is being generated (the rows
\* pushed before the exception stay in DATASET).
BatchThrows(R) ==
    /\ pc = "loop"
    /\ generated < safeN
    /\ \E k \in 0 .. Min(chunk, safeN - generated) :
         \E rows \in [ 1 .. k -> R ] :
            DATASET' = DATASET \o rows
    /\ pc' = "rejected"
    /\ UNCHANGED <<SAMPLES_SORTED, QUARTILES, PER_LOCATION_STATS, generated,
                   finalized, wired, calls>>
    /\ UNCHANGED page

BootBatchThrows == BatchThrows(ChunkRows)

FinalizeSkipsGlobal ==
    /\ PER_LOCATION_STATS' = PerLocationStats(DATASET)
    /\ UNCHANGED <<SAMPLES_SORTED, QUARTILES, DATASET>>

\* computeGlobalQuartilesAndLabels(); computePerLocationStats()
Finalize ==
    LET g == GlobalQuartilesAndLabels(DATASET)
    IN  /\ SAMPLES_SORTED' = g.sorted
        /\ QUARTILES' = g.q
        /\ DATASET' = g.ds
        /\ PER_LOCATION_STATS' = PerLocationStats(g.ds)

\* The timer fires with generated >= safeN: the loop exits, the statistics
\* are finalized, the first prediction is shown and the buttons are wired.
BootFinalize ==
    /\ pc = "loop"
    /\ ~ (generated < safeN)
    /\ Finalize
    /\ \E ctx \in FormContexts : PredictFromUI(ctx, QUARTILES')
    /\ finalized' = TRUE
    /\ wired' = TRUE
    /\ pc' = "ready"
    /\ UNCHANGED generated
    /\ UNCHANGED page

\* As BootFinalize, but refreshStatsUI or the page writes of the first
\* prediction throw: the statistics are computed, the buttons are not wired.
BootFinalizeThrows ==
    /\ pc = "loop"
    /\ ~ (generated < safeN)
    /\ Finalize
    /\ finalized' = TRUE
    /\ pc' = "rejected"
    /\ UNCHANGED <<generated, wired, calls>>
    /\ UNCHANGED page

\* The catch handler: DATASET = []; generateDataset(5000); refreshStatsUI();
\* R is the set of rows an iteration of generateDataset may push.
CatchHandler(R) ==
    /\ pc = "rejected"
    /\ \E rows \in [ 1 .. fallbackN -> R ] :
         LET g == GlobalQuartilesAndLabels(rows)
         IN  /\ SAMPLES_SORTED' = g.sorted
             /\ QUARTILES' = g.q
             /\ DATASET' = g.ds
             /\ PER_LOCATION_STATS' = PerLocationStats(g.ds)
    /\ pc' = "fallback"
    /\ UNCHANGED <<generated, finalized, wired, calls>>
    /\ UNCHANGED page

Fallback == CatchHandler(DatasetRows)

PredictClickUnwired ==
    /\ \E ctx \in FormContexts : PredictFromUI(ctx, QUARTILES)
    /\ UNCHANGED <<DATASET, SAMPLES_SORTED, QUARTILES, PER_LOCATION_STATS,
                   pc, generated, finalized, wired>>
    /\ UNCHANGED page

\* predictBtn.onclick / randomizeBtn.onclick, once wired.
PredictClick ==
    /\ wired
    /\ \E ctx \in FormContexts : PredictFromUI(ctx, QUARTILES)
    /\ UNCHANGED <<DATASET, SAMPLES_SORTED, QUARTILES, PER_LOCATION_STATS,
                   pc, generated, finalized, wired>>
    /\ UNCHANGED page

Next ==
    \/ BootFirstBatch
    \/ BootThrowsEarly
    \/ BootNextBatch
    \/ BootBatchThrows
    \/ BootFinalize
    \/ BootFinalizeThrows
    \/ Fallback
    \/ PredictClick

Spec == Init /\ [][Next]_vars

-----------------------------------------------------------------------------
(* The boot sequence interleaved with the page's click handlers            *)

\* style.display === 'none' ? 'block' : 'none'
Toggled(display) == IF display = "none" THEN "block" ELSE "none"

\* downloadBtn.onclick: an alert on an empty DATASET, else a CSV built from
\* DATASET.slice(0, DATASET.length) and handed to a link that is clicked and
\* removed.
DownloadDatasetCSV ==
    /\ controls
    /\ UNCHANGED vars

ShowPreviewTableSplices ==
    /\ controls
    /\ previewContainer # undefined
    /\ previewContainer' = Toggled(previewContainer)
    /\ DATASET' = IF previewContainer' = "none" THEN DATASET
                  ELSE SubSeq(DATASET, Min(50, Len(DATASET)) + 1, Len(DATASET))
    /\ UNCHANGED <<SAMPLES_SORTED, QUARTILES, PER_LOCATION_STATS,
                   pc, generated, finalized, wired, calls, controls, analyticsContainer>>

\* previewBtn.onclick: toggles the preview container and, when shown, fills
\* it from DATASET.slice(0,50).
ShowPreviewTable ==
    /\ controls
    /\ previewContainer # undefined
    /\ previewContainer' = Toggled(previewContainer)
    /\ UNCHANGED <<DATASET, SAMPLES_SORTED, QUARTILES, PER_LOCATION_STATS,
                   pc, generated, finalized, wired, calls, controls, analyticsContainer>>

\* analyticsBtn.onclick: toggles the analytics container and, when shown,
\* fills it from PER_LOCATION_STATS[loc] || {q1:0,q2:0,q3:0,topHours:[]}.
ToggleAnalytics ==
    /\ controls
    /\ analyticsContainer # undefined
    /\ analyticsContainer' = Toggled(analyticsContainer)
    /\ UNCHANGED <<DATASET, SAMPLES_SORTED, QUARTILES, PER_LOCATION_STATS,
                   pc, generated, finalized, wired, calls, controls, previewContainer>>

\* The draws of SpecPage's rows: those of RowDraws with z = 0.
PageDraws == { d \in RowDraws : d.z = 0 }

PageDatasetRows == { DatasetRow(d) : d \in PageDraws }

PageChunkRows == { ChunkRow(d) : d \in PageDraws }

PageFirstBatch == FirstBatch(PageChunkRows)

PageNextBatch == NextBatch(PageChunkRows)

PageBatchThrows == BatchThrows(PageChunkRows)

PageFallback == CatchHandler(PageDatasetRows)

NextPage ==
    \/ PageFirstBatch
    \/ BootThrowsEarly
    \/ PageNextBatch
    \/ PageBatchThrows
    \/ BootFinalize
    \/ BootFinalizeThrows
    \/ PageFallback
    \/ PredictClick
    \/ DownloadDatasetCSV
    \/ ShowPreviewTable
    \/ ToggleAnalytics

SpecPage == Init /\ [][NextPage]_vars

-----------------------------------------------------------------------------
(* The statistics functions called on a given corpus                       *)

\* A generated, not yet labeled row.
Row(loc, h, f) == [ hour |-> h, location |-> loc, footfall |-> f ]

RECURSIVE Flatten(_)
Flatten(seqs) == IF seqs = <<>> THEN <<>> ELSE Head(seqs) \o Flatten(Tail(seqs))

\* SpecStats probes LOCATIONS[1]; some corpora also hold rows of LOCATIONS[2];
\* the other five locations have no rows.
StatHours == 6 .. (6 + MaxStatHours - 1)

\* The footfalls of the probed location's rows at one hour: no row, one row,
\* two rows whose mean 1.5 rounds up, three rows whose mean 4/3 rounds down.
StatBuckets == { <<>>, <<3>>, <<1, 2>>, <<1, 1, 2>> }

\* The rows of another location placed before and after the probed rows.
StatOtherRows == { <<>>, << Row(LOCATIONS[2], 7, 0), Row(LOCATIONS[2], 6, 5) >> }

\* The corpus for a choice g of bucket per hour: the probed location's rows in
\* descending hour order, between the other location's rows.
StatCorpus(g, other) ==
    LET probed == Flatten([ k \in 1 .. MaxStatHours |->
                     [ j \in 1 .. Len(g[6 + MaxStatHours - k]) |->
                         Row(LOCATIONS[1], 6 + MaxStatHours - k, g[6 + MaxStatHours - k][j]) ] ])
    IN  IF other = <<>> THEN probed
        ELSE <<Head(other)>> \o probed \o Tail(other)

InitStats ==
    /\ \E g \in [ StatHours -> StatBuckets ] : \E other \in StatOtherRows :
          DATASET = StatCorpus(g, other)
    /\ SAMPLES_SORTED = <<>>
    /\ QUARTILES = null
    /\ PER_LOCATION_STATS = EmptyObject
    /\ pc = "api"
    /\ generated = 0
    /\ finalized = FALSE
    /\ wired = FALSE
    /\ calls = <<>>
    /\ controls = FALSE
    /\ previewContainer = undefined
    /\ analyticsContainer = undefined

\* A call of computeGlobalQuartilesAndLabels().
CallComputeGlobalQuartilesAndLabels ==
    /\ pc = "api"
    /\ LET g == GlobalQuartilesAndLabels(DATASET)
       IN  /\ SAMPLES_SORTED' = g.sorted
           /\ QUARTILES' = g.q
           /\ DATASET' = g.ds
    /\ UNCHANGED <<PER_LOCATION_STATS, pc, generated, finalized, wired, calls>>
    /\ UNCHANGED page

\* A call of computePerLocationStats().
CallComputePerLocationStats ==
    /\ pc = "api"
    /\ PER_LOCATION_STATS' = PerLocationStats(DATASET)
    /\ UNCHANGED <<DATASET, SAMPLES_SORTED, QUARTILES, pc, generated, finalized, wired, calls>>
    /\ UNCHANGED page

NextStats ==
    \/ CallComputeGlobalQuartilesAndLabels
    \/ CallComputePerLocationStats

SpecStats == InitStats /\ [][NextStats]_vars

-----------------------------------------------------------------------------
(* mapToDensityLabel called under a given quartile set                     *)

\* The footfalls of SpecClassify's corpora and queries.
ClassifyFootfalls == { 100, 101, 200, 300, 301 }

ClassifyCorpora ==
    UNION { [ 1 .. n -> { Row(LOCATIONS[1], 6, f) : f \in ClassifyFootfalls } ] :
            n \in 0 .. MaxClassifyRows }

InitClassify ==
    /\ DATASET \in ClassifyCorpora
    /\ SAMPLES_SORTED = <<>>
    /\ QUARTILES = null
    /\ PER_LOCATION_STATS = EmptyObject
    /\ pc = "api"
    /\ generated = 0
    /\ finalized = FALSE
    /\ wired = FALSE
    /\ calls = <<>>
    /\ controls = FALSE
    /\ previewContainer = undefined
    /\ analyticsContainer = undefined

\* A call of mapToDensityLabel(footfall).
CallMapToDensityLabel ==
    /\ pc = "api"
    /\ \E footfall \in ClassifyFootfalls :
          calls' = Logged([ footfall  |-> footfall,
                            label     |-> mapToDensityLabel(footfall, QUARTILES),
                            quartiles |-> QUARTILES ])
    /\ UNCHANGED <<DATASET, SAMPLES_SORTED, QUARTILES, PER_LOCATION_STATS,
                   pc, generated, finalized, wired>>
    /\ UNCHANGED page

NextClassify ==
    \/ CallComputeGlobalQuartilesAndLabels
    \/ CallMapToDensityLabel

SpecClassify == InitClassify /\ [][NextClassify]_vars

-----------------------------------------------------------------------------
(* computeFootfallSample called on a given context                         *)

\* Every location and one the tables lack; the hours on both sides of every
\* boundary of timeFactor; known weather types and one the table lacks; a
\* temperature in each band of tempFactor; z = 0 is a noise of 0.
FootfallContexts ==
    [ location : KnownLocations \cup {"Elsewhere"},
      hour : {5, 6, 8, 9, 11, 12, 14, 15, 17, 18, 20, 21},
      weather : {"Clear", "Cloudy", "Fog"},
      tempNum : {15, 26, 36}, tempDen : {1},
      is_festival : {0, 1}, is_holiday : {0, 1},
      z : {-3, 0} ]

InitFootfall ==
    /\ DATASET = <<>>
    /\ SAMPLES_SORTED = <<>>
    /\ QUARTILES = null
    /\ PER_LOCATION_STATS = EmptyObject
    /\ pc = "api"
    /\ generated = 0
    /\ finalized = FALSE
    /\ wired = FALSE
    /\ \E ctx \in FootfallContexts : calls = << [ ctx |-> ctx ] >>
    /\ controls = FALSE
    /\ previewContainer = undefined
    /\ analyticsContainer = undefined

\* A call of computeFootfallSample(ctx) and its return value.
CallComputeFootfallSample ==
    /\ pc = "api"
    /\ calls' = << [ ctx |-> calls[1].ctx,
                     footfall |-> computeFootfallSample(calls[1].ctx) ] >>
    /\ pc' = "returned"
    /\ UNCHANGED <<DATASET, SAMPLES_SORTED, QUARTILES, PER_LOCATION_STATS,
                   generated, finalized, wired>>
    /\ UNCHANGED page

NextFootfall == CallComputeFootfallSample

SpecFootfall == InitFootfall /\ [][NextFootfall]_vars

-----------------------------------------------------------------------------
(* Properties                                                              *)

\* The four tiers in their order Low < Medium < High < VeryHigh; the script
\* spells the top tier "Very_High".
TierOrder == << "Low", "Medium", "High", "Very_High" >>

TierRank(label) == CHOOSE k \in 0 .. 3 : TierOrder[k + 1] = label

\* label is the tier the thresholds q give footfall f, boundaries in the
\* lower tier.
TierMatches(label, f, q) ==
    /\ label \in { TierOrder[k] : k \in 1 .. 4 }
    /\ label = "Low" <=> f <= q.q1
    /\ label = "Medium" <=> (q.q1 < f /\ f <= q.q2)
    /\ label = "High" <=> (q.q2 < f /\ f <= q.q3)
    /\ label = "Very_High" <=> ~ (f <= q.q1 \/ (q.q1 < f /\ f <= q.q2) \/ (q.q2 < f /\ f <= q.q3))

IsLabeled(r) == "density_label" \in DOMAIN r /\ "density_int" \in DOMAIN r

BoundaryQuartiles == [ q1 |-> 100, q2 |-> 200, q3 |-> 300 ]

\* C1: with an initialized quartile set, mapToDensityLabel and the
\* row-labeling loop return Low iff f <= q1, Medium iff q1 < f <= q2, High iff
\* q2 < f <= q3 and VeryHigh otherwise; with {100,200,300}: 100 -> Low,
\* 101 -> Medium, 300 -> High, 301 -> VeryHigh.
C1_ThresholdTiers ==
    /\ \A i \in 1 .. Len(calls) :
         calls[i].quartiles # null =>
            /\ TierMatches(calls[i].label, calls[i].footfall, calls[i].quartiles)
            /\ calls[i].quartiles = BoundaryQuartiles =>
                 /\ calls[i].footfall = 100 => calls[i].label = "Low"
                 /\ calls[i].footfall = 101 => calls[i].label = "Medium"
                 /\ calls[i].footfall = 300 => calls[i].label = "High"
                 /\ calls[i].footfall = 301 => calls[i].label = "Very_High"
    /\ \A i \in 1 .. Len(DATASET) :
         IsLabeled(DATASET[i]) =>
            TierMatches(DATASET[i].density_label, DATASET[i].footfall, QUARTILES)

\* C1 witness: under {100,200,300} the boundary 100 was classified Low and 101
\* Medium, and the corpus rows carry labels.
C1_Witness ==
    /\ QUARTILES = BoundaryQuartiles
    /\ Len(calls) = 2
    /\ calls[1] = [ footfall |-> 100, label |-> "Low", quartiles |-> BoundaryQuartiles ]
    /\ calls[2] = [ footfall |-> 101, label |-> "Medium", quartiles |-> BoundaryQuartiles ]
    /\ \A i \in 1 .. Len(DATASET) : IsLabeled(DATASET[i])
    /\ \E i \in 1 .. Len(DATASET) : DATASET[i].footfall = 300 /\ DATASET[i].density_label = "High"

\* C5: a mapToDensityLabel call made while QUARTILES is null logs "Unknown",
\* whatever the footfall, and changes neither the corpus nor the statistics.
C5_UnknownWhenNull ==
    [][ (QUARTILES = null /\ calls' # calls)
        => /\ calls'[Len(calls')].label = "Unknown"
           /\ UNCHANGED <<DATASET, SAMPLES_SORTED, QUARTILES, PER_LOCATION_STATS>> ]_vars

\* C5 witness: a corpus exists, no quartiles were computed, and a call was
\* answered "Unknown".
C5_Witness ==
    /\ QUARTILES = null
    /\ Len(DATASET) > 0
    /\ Len(calls) = 1
    /\ calls[1].quartiles = null
    /\ calls[1].label = "Unknown"
    /\ calls[1].footfall = 301

\* C10: of two calls under the same initialized quartile set, the one with the
\* smaller footfall does not get the higher tier.
C10_Monotonic ==
    (Len(calls) = 2 /\ calls[1].quartiles # null /\ calls[1].quartiles = calls[2].quartiles)
    => /\ calls[1].footfall <= calls[2].footfall
            => TierRank(calls[1].label) <= TierRank(calls[2].label)
       /\ calls[2].footfall <= calls[1].footfall
            => TierRank(calls[2].label) <= TierRank(calls[1].label)

\* C10 witness: two calls under one quartile set with different footfalls and
\* different tiers.
C10_Witness ==
    /\ Len(calls) = 2
    /\ calls[1].quartiles # null
    /\ calls[1].quartiles = calls[2].quartiles
    /\ calls[1].footfall < calls[2].footfall
    /\ calls[1].label = "Medium"
    /\ calls[2].label = "Very_High"

\* The positions of the corpus rows of location loc, and of all rows.
LocIdx(loc) == { i \in 1 .. Len(DATASET) : DATASET[i].location = loc }

AllIdx == 1 .. Len(DATASET)

\* v is the element at zero-based position k of the ascending order of the
\* footfalls at positions I: it occurs, at most k footfalls are smaller and
\* more than k are not larger.
IsRankElement(I, v, k) ==
    /\ \E i \in I : DATASET[i].footfall = v
    /\ Cardinality({ i \in I : DATASET[i].footfall < v }) <= k
    /\ Cardinality({ i \in I : DATASET[i].footfall <= v }) > k

\* q holds the nearest-rank quartiles of the footfalls at positions I:
\* positions floor(n/4), floor(n/2), floor(3n/4) of the ascending order.
NearestRankQuartiles(I, q) ==
    /\ IsRankElement(I, q.q1, Cardinality(I) \div 4)
    /\ IsRankElement(I, q.q2, Cardinality(I) \div 2)
    /\ IsRankElement(I, q.q3, (3 * Cardinality(I)) \div 4)

IsAscending(arr) == \A i \in 1 .. Len(arr) - 1 : arr[i] <= arr[i + 1]

\* C2: for a non-empty sample each quartile is the zero-indexed nearest-rank
\* element of the ascending sample, at floor(n*0.25), floor(n*0.50) and
\* floor(n*0.75); the global quartiles are taken over all rows and each
\* location's quartiles over that location's rows.
C2_NearestRank ==
    /\ (QUARTILES # null /\ Len(DATASET) > 0) =>
          /\ NearestRankQuartiles(AllIdx, QUARTILES)
          /\ IsAscending(SAMPLES_SORTED)
          /\ Len(SAMPLES_SORTED) = Len(DATASET)
    /\ \A loc \in DOMAIN PER_LOCATION_STATS :
          LocIdx(loc) # {} => NearestRankQuartiles(LocIdx(loc), PER_LOCATION_STATS[loc])

\* C2 witness: both statistics were computed over a corpus with rows of two
\* locations, and the probed location's quartiles differ from the global ones.
C2_Witness ==
    /\ QUARTILES # null
    /\ PER_LOCATION_STATS # EmptyObject
    /\ Cardinality(LocIdx(LOCATIONS[1])) >= 7
    /\ Cardinality(LocIdx(LOCATIONS[2])) = 2
    /\ PER_LOCATION_STATS[LOCATIONS[1]].q1 # QUARTILES.q1
    /\ PER_LOCATION_STATS[LOCATIONS[2]].q2 # QUARTILES.q2
    /\ QUARTILES.q1 < QUARTILES.q2

\* C3: every quartile set that exists, global or per location, is
\* non-decreasing, for corpora of every size from 0 up.
C3_NonDecreasing ==
    /\ QUARTILES # null => (QUARTILES.q1 <= QUARTILES.q2 /\ QUARTILES.q2 <= QUARTILES.q3)
    /\ \A loc \in DOMAIN PER_LOCATION_STATS :
          /\ PER_LOCATION_STATS[loc].q1 <= PER_LOCATION_STATS[loc].q2
          /\ PER_LOCATION_STATS[loc].q2 <= PER_LOCATION_STATS[loc].q3

\* C3 witness: quartile sets with distinct boundaries exist, globally and for
\* a location, over a corpus that was not generated in ascending order.
C3_Witness ==
    /\ QUARTILES # null
    /\ QUARTILES.q1 < QUARTILES.q3
    /\ PER_LOCATION_STATS # EmptyObject
    /\ PER_LOCATION_STATS[LOCATIONS[2]].q1 < PER_LOCATION_STATS[LOCATIONS[2]].q2
    /\ ~ IsAscending(FootfallsOf(DATASET))

\* The hours observed at location loc, and the rows of one hour there.
HoursAt(loc) == { DATASET[i].hour : i \in LocIdx(loc) }

HourIdx(loc, h) == { i \in LocIdx(loc) : DATASET[i].hour = h }

RECURSIVE SumAt(_)
SumAt(I) ==
    IF I = {} THEN 0
    ELSE LET i == CHOOSE x \in I : TRUE IN DATASET[i].footfall + SumAt(I \ {i})

\* a is a nearest integer to sum / cnt.
IsNearestInteger(a, sum, cnt) ==
    /\ 2 * (a * cnt - sum) <= cnt
    /\ 2 * (sum - a * cnt) <= cnt

\* C8: a location's top-hours list has at most 5 entries, one per distinct
\* hour observed there, each with the group's mean footfall rounded to the
\* nearest integer; averages descend, equal averages are in ascending hour
\* order, and no omitted hour has a higher average than a listed one.
C8_TopHours ==
    \A loc \in DOMAIN PER_LOCATION_STATS :
       LET t == PER_LOCATION_STATS[loc].topHours
           listed == { t[i].hour : i \in 1 .. Len(t) }
       IN  /\ Len(t) <= 5
           /\ Len(t) = Min(5, Cardinality(HoursAt(loc)))
           /\ listed \subseteq HoursAt(loc)
           /\ Cardinality(listed) = Len(t)
           /\ \A i \in 1 .. Len(t) :
                 IsNearestInteger(t[i].avg, SumAt(HourIdx(loc, t[i].hour)),
                                  Cardinality(HourIdx(loc, t[i].hour)))
           /\ \A i \in 1 .. Len(t) - 1 :
                 \/ t[i].avg > t[i + 1].avg
                 \/ (t[i].avg = t[i + 1].avg /\ t[i].hour < t[i + 1].hour)
           /\ \A h \in HoursAt(loc) \ listed : \A i \in 1 .. Len(t) :
                 \A a \in 0 .. SumAt(HourIdx(loc, h)) :
                    (IsNearestInteger(a, SumAt(HourIdx(loc, h)), Cardinality(HourIdx(loc, h)))
                     /\ 2 * a * Cardinality(HourIdx(loc, h)) # 2 * SumAt(HourIdx(loc, h))
                                                             - Cardinality(HourIdx(loc, h)))
                    => a <= t[i].avg

\* C8 witness: six hours were observed at the probed location, five are
\* listed, two listed hours tie, a listed average is a rounded mean, and the
\* omitted hour is a later hour than the last listed one.
C8_Witness ==
    /\ PER_LOCATION_STATS # EmptyObject
    /\ Cardinality(HoursAt(LOCATIONS[1])) = 6
    /\ LET t == PER_LOCATION_STATS[LOCATIONS[1]].topHours
       IN  /\ Len(t) = 5
           /\ t[1].avg = 3
           /\ t[2].avg = 2 /\ t[3].avg = 2 /\ t[2].hour < t[3].hour
           /\ Cardinality(HourIdx(LOCATIONS[1], t[2].hour)) = 2
           /\ t[5].avg = 1
           /\ \E h \in HoursAt(LOCATIONS[1]) :
                 /\ \A i \in 1 .. 5 : t[i].hour # h
                 /\ h > t[5].hour

\* The entry of a location without observations.
EmptyLocationEntry == [ q1 |-> 0, q2 |-> 0, q3 |-> 0, topHours |-> <<>> ]

\* C9: once computed, the per-location statistics hold, for every location
\* with no observations, an empty top-hours list and the quartiles {0,0,0};
\* the global quartiles of an empty corpus are {0,0,0}.
C9_EmptySample ==
    /\ PER_LOCATION_STATS # EmptyObject =>
          \A loc \in KnownLocations :
             LocIdx(loc) = {} =>
                /\ loc \in DOMAIN PER_LOCATION_STATS
                /\ PER_LOCATION_STATS[loc] = EmptyLocationEntry
    /\ (QUARTILES # null /\ Len(DATASET) = 0) => QUARTILES = [ q1 |-> 0, q2 |-> 0, q3 |-> 0 ]

\* C9 witness: a corpus with rows of one location only, whose other locations
\* got the degenerate entry.
C9_Witness ==
    /\ Len(DATASET) > 0
    /\ LocIdx(LOCATIONS[2]) = {}
    /\ PER_LOCATION_STATS # EmptyObject
    /\ PER_LOCATION_STATS[LOCATIONS[2]] = EmptyLocationEntry
    /\ PER_LOCATION_STATS[LOCATIONS[7]] = EmptyLocationEntry
    /\ PER_LOCATION_STATS[LOCATIONS[1]].topHours # <<>>

\* C4: after any sequence of generateDataset and generateChunkAndAppend
\* calls every row has an integer hour in 6..21, an integer footfall >= 0 and
\* one of the seven known locations.
C4_RowsInRange ==
    /\ Cardinality(KnownLocations) = 7
    /\ \A i \in 1 .. Len(DATASET) :
          /\ DATASET[i].hour \in 6 .. 21
          /\ DATASET[i].footfall \in Nat
          /\ DATASET[i].location \in KnownLocations

\* C4 witness: the chunked build ran to its end and the fallback regenerated
\* the corpus; it holds a row at hour 21 whose footfall was clamped to 0 and
\* a row at hour 6.
C4_Witness ==
    /\ pc = "fallback"
    /\ generated = safeN
    /\ Len(DATASET) = fallbackN
    /\ \E i \in 1 .. Len(DATASET) : DATASET[i].hour = 21 /\ DATASET[i].footfall = 0
    /\ \E i \in 1 .. Len(DATASET) : DATASET[i].hour = 6 /\ DATASET[i].footfall > 0

C7_LabelsAfterBuild ==
    (finalized \/ pc = "fallback") =>
       /\ QUARTILES # null
       /\ Len(DATASET) > 0 => NearestRankQuartiles(AllIdx, QUARTILES)
       /\ \A i \in AllIdx :
             /\ IsLabeled(DATASET[i])
             /\ TierMatches(DATASET[i].density_label, DATASET[i].footfall, QUARTILES)
             /\ DATASET[i].density_int = TierRank(DATASET[i].density_label)

\* C7 witness: the chunked build completed over rows of two locations and
\* its corpus holds rows of all four tiers, a boundary row among them.
C7_Witness ==
    /\ pc = "ready"
    /\ finalized
    /\ Len(DATASET) = safeN
    /\ \A k \in 0 .. 3 : \E i \in AllIdx : DATASET[i].density_int = k
    /\ \E i \in AllIdx : DATASET[i].footfall = QUARTILES.q2 /\ DATASET[i].density_label = "Medium"
    /\ \E i \in AllIdx : DATASET[i].location = LOCATIONS[1]
    /\ \E i \in AllIdx : DATASET[i].location = LOCATIONS[7]


\* The time factor by hour range: 0.9 on [6,9), 1.0 on [9,12), 0.8 on [12,15),
\* 1.1 on [15,18), 1.4 on [18,21), 0.6 otherwise; in tenths.
TimeFactorByRange10(hour) ==
    CASE hour \in 6 .. 8   -> 9
      [] hour \in 9 .. 11  -> 10
      [] hour \in 12 .. 14 -> 8
      [] hour \in 15 .. 17 -> 11
      [] hour \in 18 .. 20 -> 14
      [] OTHER             -> 6

\* The scale of the product below: 10 * 10 * 10 * 20 * 20.
ProductDen == 10 * 10 * 10 * 20 * 20

\* base_scale * popularity * time_factor * festival_factor * holiday_factor *
\* weather_factor * temperature_factor as a real number, over ProductDen; an
\* unknown location has popularity 1.0 and base scale 200, an unknown weather
\* has factor 1.0.
ProductNum(ctx) ==
    LET known == ctx.location \in KnownLocations
    IN  (IF known THEN baseScale[ctx.location] ELSE 200)
        * (IF known THEN locPopularity10[ctx.location] ELSE 10)
        * TimeFactorByRange10(ctx.hour)
        * (IF ctx.is_festival = 1 THEN 2 ELSE 1)
        * (IF ctx.is_holiday = 1 THEN 14 ELSE 10)
        * (IF ctx.weather \in DOMAIN weatherMultiplier20
           THEN weatherMultiplier20[ctx.weather] ELSE 20)
        * tempFactor20(ctx.tempNum, ctx.tempDen)

\* round(num / den), halves upward, for an even den > 0.
RoundedQuotient(num, den) == (num + den \div 2) \div den

PalaceEvening ==
    [ location |-> "Mysore_Palace", hour |-> 18, weather |-> "Clear",
      tempNum |-> 26, tempDen |-> 1, is_festival |-> 0, is_holiday |-> 0, z |-> 0 ]

\* C11: with the noise fixed to 0, computeFootfallSample returns
\* max(0, round(base_scale * popularity * time_factor * festival_factor *
\* holiday_factor * weather_factor * temperature_factor)) for every context,
\* with the time factor by hour range and the defaults for an unknown location
\* or weather; Mysore_Palace at 18, Clear, 26 degrees, no festival, no holiday
\* gives 1680.
C11_NoiselessFootfall ==
    \A i \in 1 .. Len(calls) :
       ("footfall" \in DOMAIN calls[i] /\ "ctx" \in DOMAIN calls[i] /\ calls[i].ctx.z = 0)
       => /\ calls[i].footfall
               = Max(0, RoundedQuotient(ProductNum(calls[i].ctx), ProductDen))
          /\ calls[i].ctx = PalaceEvening => calls[i].footfall = 1680

\* C12: in every interleaving of the boot sequence with the Download CSV,
\* Preview and Location Analytics click handlers and the fallback handler, the
\* corpus has one writer at a time: a click handler changes neither the corpus
\* nor the statistics derived from it, the boot sequence writes only while it
\* runs, the fallback writes only once the boot sequence has been rejected,
\* and nothing writes after the fallback.
C12_SingleWriter ==
    [][ /\ ( \/ (previewContainer # undefined /\ previewContainer' # previewContainer)
             \/ (analyticsContainer # undefined /\ analyticsContainer' # analyticsContainer) )
           => UNCHANGED <<DATASET, SAMPLES_SORTED, QUARTILES, PER_LOCATION_STATS>>
        /\ DATASET' # DATASET
           => \/ pc \in {"load", "loop"} /\ pc' \in {"loop", "ready", "rejected"}
              \/ pc = "rejected" /\ pc' = "fallback"
        /\ pc = "fallback" => DATASET' = DATASET ]_vars

\* C12 witness: the boot sequence appended batches and was rejected before the
\* target, both panels were opened by clicks, and the fallback regenerated the
\* corpus.
C12_Witness ==
    /\ pc = "fallback"
    /\ 0 < generated /\ generated < safeN
    /\ controls
    /\ previewContainer = "block"
    /\ analyticsContainer = "block"
    /\ Len(DATASET) = fallbackN
    /\ \A i \in 1 .. Len(DATASET) : IsLabeled(DATASET[i])

\* C13: in every execution of the boot sequence, failure and fallback
\* included, mapToDensityLabel is invoked for a prediction only with the global
\* quartiles computed, the predict buttons are wired only after finalization,
\* and no prediction is answered "Unknown".
C13_PredictAfterQuartiles ==
    /\ \A i \in 1 .. Len(calls) :
          /\ calls[i].quartiles # null
          /\ calls[i].label # "Unknown"
          /\ TierMatches(calls[i].label, calls[i].footfall, calls[i].quartiles)
    /\ wired => (finalized /\ QUARTILES # null)
    /\ calls # <<>> => (finalized /\ QUARTILES # null)

\* C13 witness: the first prediction was made by the boot sequence and a
\* second one by a wired button, with different tiers.
C13_Witness ==
    /\ wired
    /\ Len(calls) = 2
    /\ calls[1].label # calls[2].label
    /\ calls[1].quartiles = QUARTILES

\* C14: the build loop terminates: a step of the boot sequence inside the
\* loop appends one batch of between 1 and chunk observations and raises the
\* running count by the batch size, the running count never exceeds the
\* target, and the loop is left once the count reaches it; when the loop
\* exits the corpus holds exactly the target number of observations, the sum
\* of the batch sizes.
C14_LoopTerminates ==
    /\ [](generated <= safeN)
    /\ [](pc = "loop" => Len(DATASET) = generated)
    /\ [][ (pc \in {"load", "loop"} /\ pc' = "loop" /\ DATASET' # DATASET)
             => /\ generated < safeN
                /\ generated' - generated \in 1 .. chunk
                /\ Len(DATASET') - Len(DATASET) = generated' - generated ]_vars
    /\ [][ generated' # generated => (pc \in {"load", "loop"} /\ pc' = "loop") ]_vars
    /\ [][ (~ finalized /\ finalized')
             => /\ pc = "loop"
                /\ generated = safeN
                /\ Len(DATASET) = safeN
                /\ Len(DATASET') = safeN ]_vars
    /\ [][ (pc = "loop" /\ pc' = "ready") => (~ finalized /\ finalized') ]_vars

\* C14 witness: the loop ran several batches and exited with the target
\* number of observations.
C14_Witness ==
    /\ pc = "ready"
    /\ chunk < safeN
    /\ generated = safeN
    /\ Len(DATASET) = safeN

=============================================================================
